---- MODULE Spec2Model ----
(***************************************************************************)
(* The script front end of saba_core: the recursive-descent JsParser       *)
(* (renderer/js/ast.rs) over a peekable token stream, and the tree-walking *)
(* JsRuntime (renderer/js/runtime.rs).                                     *)
(*                                                                         *)
(* Option<T> is a sequence of length at most one: None is <<>>, Some(x) is *)
(* <<x>>.  A u64 is a little-endian tuple of NumLimbs limbs of LimbBits    *)
(* bits each, because the values the arithmetic claims are about (2^64-1)  *)
(* do not fit the model checker's integers.                                *)
(***************************************************************************)
EXTENDS Integers, Sequences, FiniteSets, TLC

VARIABLES
    input,            \* the token sequence the JsParser was constructed over
    stmts,            \* the statements `input` was written from (<<>> if raw)
    semis,            \* per statement: is it followed by ';' in `input`
    t,                \* JsParser.t: the tokens not yet consumed
    program,          \* Program.body: the statements parsed (or built)
    pc,               \* "parse" | "parsed" | "built" | "execute" | "done" | "panicked"
    i,                \* execute's loop: index of the next statement to eval
    results,          \* what eval returned for each statement evaluated so far
    runtime,          \* the JsRuntime's fields: identifier name -> value
    overflow_checks   \* build profile: are integer overflow checks compiled in

vars == <<input, stmts, semis, t, program, pc, i, results, runtime, overflow_checks>>

(***************************************************************************)
(* Bounds of the model.                                                    *)
(***************************************************************************)
MaxLen == 4           \* longest raw token stream
MaxStmts == 2         \* most statements in a stream written from statements

(***************************************************************************)
(* Option<T>.                                                              *)
(***************************************************************************)
None == <<>>
Some(x) == <<x>>

(***************************************************************************)
(* Natural numbers as little-endian limb sequences, and u64 on top.        *)
(***************************************************************************)
U64Bits == 64
LimbBits == U64Bits \div 4
LimbBase == 2^LimbBits
NumLimbs == U64Bits \div LimbBits

Limb(a, k) == IF k <= Len(a) THEN a[k] ELSE 0

\* carry into limb k of a + b
RECURSIVE Carry(_, _, _)
Carry(a, b, k) ==
    IF k = 1 THEN 0
    ELSE (Limb(a, k - 1) + Limb(b, k - 1) + Carry(a, b, k - 1)) \div LimbBase

\* borrow out of limb k - 1 of a - b
RECURSIVE Borrow(_, _, _)
Borrow(a, b, k) ==
    IF k = 1 THEN 0
    ELSE IF Limb(a, k - 1) - Limb(b, k - 1) - Borrow(a, b, k - 1) < 0 THEN 1 ELSE 0

\* a + b > 2^64 - 1
AddOverflows(a, b) == Carry(a, b, NumLimbs + 1) = 1

\* a < b
SubOverflows(a, b) == Borrow(a, b, NumLimbs + 1) = 1

\* (a + b) mod 2^64
wrapping_add(a, b) ==
    [k \in 1..NumLimbs |-> (a[k] + b[k] + Carry(a, b, k)) % LimbBase]

\* (a - b) mod 2^64
wrapping_sub(a, b) ==
    [k \in 1..NumLimbs |-> (a[k] - b[k] - Borrow(a, b, k) + LimbBase) % LimbBase]

\* the u64 of a number below LimbBase
U64(n) == [k \in 1..NumLimbs |-> IF k = 1 THEN n ELSE 0]

U64Max == [k \in 1..NumLimbs |-> LimbBase - 1]
U64High == [k \in 1..NumLimbs |-> IF k = NumLimbs THEN LimbBase \div 2 ELSE 0]

(***************************************************************************)
(* Token.                                                                  *)
(***************************************************************************)
Keyword(text) == [kind |-> "Keyword", text |-> text]
Punctuator(c) == [kind |-> "Punctuator", c |-> c]
Identifier(text) == [kind |-> "Identifier", text |-> text]
StringLiteral(text) == [kind |-> "StringLiteral", text |-> text]
Number(value) == [kind |-> "Number", value |-> value]

(***************************************************************************)
(* Peekable<JsLexer>: the remaining tokens.                                *)
(***************************************************************************)
peek(ts) == IF ts = <<>> THEN None ELSE Some(Head(ts))
next(ts) ==
    IF ts = <<>> THEN [item |-> None, t |-> ts]
    ELSE [item |-> Some(Head(ts)), t |-> Tail(ts)]

(***************************************************************************)
(* Node and its constructors.                                              *)
(***************************************************************************)
new_expression_statement(node) ==
    Some([kind |-> "ExpressionStatement", expression |-> node])

new_additive_expression(operator, left, right) ==
    Some([kind |-> "AdditiveExpression",
          operator |-> operator, left |-> left, right |-> right])

new_assignment_expression(operator, left, right) ==
    Some([kind |-> "AssignmentExpression",
          operator |-> operator, left |-> left, right |-> right])

new_member_expression(object, property) ==
    Some([kind |-> "MemberExpression", object |-> object, property |-> property])

new_numeric_literal(value) == Some([kind |-> "NumericLiteral", value |-> value])

new_variable_declarator(id, init) ==
    Some([kind |-> "VariableDeclarator", id |-> id, init |-> init])

new_variable_declaration(declarations) ==
    Some([kind |-> "VariableDeclaration", declarations |-> declarations])

new_identifier(name) == Some([kind |-> "Identifier", name |-> name])

new_string_literal(value) == Some([kind |-> "StringLiteral", value |-> value])

(***************************************************************************)
(* JsParser.  Every production takes the remaining tokens and returns the  *)
(* node it built (an Option), the tokens it left, and whether every        *)
(* assert! it passed held.  A production that goes on after a call is      *)
(* written as the call followed by an operator over what the call          *)
(* returned.                                                               *)
(***************************************************************************)
Parsed(node, ts, ok) == [node |-> node, t |-> ts, ok |-> ok]

\* assert!(self.t.next().is_some()) with n what next() returned, before `p`
Asserted(n, p) == Parsed(p.node, p.t, n.item # None /\ p.ok)

\* primary_expression_match leaving a token it makes no node of in the stream
primary_expression_match_unread(n) ==
    IF n.item = None THEN Parsed(None, n.t, TRUE)
    ELSE LET tok == n.item[1] IN
         CASE tok.kind = "Identifier" -> Parsed(new_identifier(tok.text), n.t, TRUE)
           [] tok.kind = "StringLiteral" -> Parsed(new_string_literal(tok.text), n.t, TRUE)
           [] tok.kind = "Number" -> Parsed(new_numeric_literal(tok.value), n.t, TRUE)
           [] OTHER -> Parsed(None, <<tok>> \o n.t, TRUE)

\* primary_expression: the match on the token next() returned
primary_expression_match(n) ==
    IF n.item = None THEN Parsed(None, n.t, TRUE)
    ELSE LET tok == n.item[1] IN
         CASE tok.kind = "Identifier" -> Parsed(new_identifier(tok.text), n.t, TRUE)
           [] tok.kind = "StringLiteral" -> Parsed(new_string_literal(tok.text), n.t, TRUE)
           [] tok.kind = "Number" -> Parsed(new_numeric_literal(tok.value), n.t, TRUE)
           [] OTHER -> Parsed(None, n.t, TRUE)

primary_expression(ts) == primary_expression_match(next(ts))

member_assignment(ts) == primary_expression(ts)

left_hand_side_expression(ts) == member_assignment(ts)

RECURSIVE assignment_expression(_)

\* additive_expression_node with the operands the other way round
additive_expression_node_swapped(c, left, right) ==
    Parsed(new_additive_expression(c, right.node, left.node),
           right.t, left.ok /\ right.ok)

\* additive_expression: Node::new_additive_expression(c, left, right)
additive_expression_node(c, left, right) ==
    Parsed(new_additive_expression(c, left.node, right.node),
           right.t, left.ok /\ right.ok)

\* additive_expression_peek taking its right operand from
\* left_hand_side_expression instead of assignment_expression
additive_expression_peek_flat(left) ==
    IF peek(left.t) = None THEN left
    ELSE LET tok == peek(left.t)[1] IN
         IF tok.kind = "Punctuator" /\ tok.c \in {"+", "-"}
         THEN Asserted(next(left.t),
                       additive_expression_node(
                           tok.c, left, left_hand_side_expression(next(left.t).t)))
         ELSE left

\* additive_expression: the peek after `left`
additive_expression_peek(left) ==
    IF peek(left.t) = None THEN left
    ELSE LET tok == peek(left.t)[1] IN
         IF tok.kind = "Punctuator" /\ tok.c \in {"+", "-"}
         THEN Asserted(next(left.t),
                       additive_expression_node(
                           tok.c, left, assignment_expression(next(left.t).t)))
         ELSE left

additive_expression(ts) == additive_expression_peek(left_hand_side_expression(ts))

\* assignment_expression: Node::new_assignment_expression('=', expr, right)
assignment_expression_node(expr, right) ==
    Parsed(new_assignment_expression("=", expr.node, right.node),
           right.t, expr.ok /\ right.ok)

\* assignment_expression: the peek after `expr`
assignment_expression_peek(expr) ==
    IF peek(expr.t) = None THEN expr
    ELSE IF peek(expr.t)[1] = Punctuator("=")
         THEN Asserted(next(expr.t),
                       assignment_expression_node(
                           expr, assignment_expression(next(expr.t).t)))
         ELSE expr

assignment_expression(ts) == assignment_expression_peek(additive_expression(ts))

\* identifier: the match on the token next() returned
identifier_match(n) ==
    IF n.item = None THEN Parsed(None, n.t, TRUE)
    ELSE LET tok == n.item[1] IN
         IF tok.kind = "Identifier"
         THEN Parsed(new_identifier(tok.text), n.t, TRUE)
         ELSE Parsed(None, n.t, TRUE)

identifier(ts) == identifier_match(next(ts))

\* initialiser: the match on the token next() returned
initialiser_match(n) ==
    IF n.item = None THEN Parsed(None, n.t, TRUE)
    ELSE LET tok == n.item[1] IN
         IF tok.kind = "Punctuator" /\ tok.c = "="
         THEN assignment_expression(n.t)
         ELSE Parsed(None, n.t, TRUE)

initialiser(ts) == initialiser_match(next(ts))

\* variable_declaration: the declarator and the declaration around it
variable_declaration_node(ident, init) ==
    LET declarator == new_variable_declarator(ident.node, init.node)
        declarations == <<declarator>>
    IN  Parsed(new_variable_declaration(declarations), init.t, ident.ok /\ init.ok)

\* variable_declaration: self.initialiser() after `ident`
variable_declaration_init(ident) ==
    variable_declaration_node(ident, initialiser(ident.t))

variable_declaration(ts) == variable_declaration_init(identifier(ts))

\* statement: Node::new_expression_statement(expr)
expression_statement(expr) ==
    Parsed(new_expression_statement(expr.node), expr.t, expr.ok)

\* statement_match consuming a keyword that is not `var`
statement_match_consuming(ts) ==
    LET tok == peek(ts)[1] IN
    IF tok.kind = "Keyword"
    THEN IF tok.text = "var"
         THEN Asserted(next(ts), variable_declaration(next(ts).t))
         ELSE Parsed(None, next(ts).t, TRUE)
    ELSE expression_statement(assignment_expression(ts))

\* statement: the match on the token peeked (ts is not empty)
statement_match(ts) ==
    LET tok == peek(ts)[1] IN
    IF tok.kind = "Keyword"
    THEN IF tok.text = "var"
         THEN Asserted(next(ts), variable_declaration(next(ts).t))
         ELSE Parsed(None, ts, TRUE)
    ELSE expression_statement(assignment_expression(ts))

\* statement_semicolon leaving the ';' in the stream
statement_semicolon_kept(node) == node

\* statement_semicolon asserting a next token whatever was peeked
statement_semicolon_always(node) ==
    Asserted(next(node.t), Parsed(node.node, next(node.t).t, node.ok))

\* statement: the optional ';' after `node`
statement_semicolon(node) ==
    IF peek(node.t) = Some(Punctuator(";"))
    THEN Asserted(next(node.t), Parsed(node.node, next(node.t).t, node.ok))
    ELSE node

statement(ts) ==
    IF peek(ts) = None THEN Parsed(None, ts, TRUE)
    ELSE statement_semicolon(statement_match(ts))

source_element(ts) ==
    IF peek(ts) = None THEN Parsed(None, ts, TRUE)
    ELSE statement(ts)

RECURSIVE parse_loop(_, _, _)

\* parse_loop_match pushing a statement around what source_element returned
\* before looking at it
parse_loop_match_pushing(node, body, ok) ==
    IF node.node = None
    THEN [body |-> Append(body, new_expression_statement(node.node)[1]),
          t |-> node.t, ok |-> ok /\ node.ok]
    ELSE parse_loop(node.t, Append(body, node.node[1]), ok /\ node.ok)

\* parse_ast: the match on what source_element returned
parse_loop_match(node, body, ok) ==
    IF node.node = None
    THEN [body |-> body, t |-> node.t, ok |-> ok /\ node.ok]
    ELSE parse_loop(node.t, Append(body, node.node[1]), ok /\ node.ok)

\* parse_ast: its loop, entered with `body` pushed so far
parse_loop(ts, body, ok) == parse_loop_match(source_element(ts), body, ok)

parse_ast(ts) == parse_loop(ts, <<>>, TRUE)

(***************************************************************************)
(* JsRuntime.  eval returns Option<RuntimeValue>, or does not return: the  *)
(* outcome records which (panic), and the value when it returned.          *)
(***************************************************************************)
RuntimeValue(n) == [kind |-> "Number", n |-> n]

Returned(value) == [panic |-> FALSE, value |-> value]
Panicked == [panic |-> TRUE, value |-> None]

\* add with the operator of sub: left_num - right_num
add_subtracting(self, rhs) ==
    IF SubOverflows(self.n, rhs.n) /\ overflow_checks
    THEN Panicked
    ELSE Returned(Some(RuntimeValue(wrapping_sub(self.n, rhs.n))))

\* impl Add for RuntimeValue: u64 `+`, checked when overflow checks are
\* compiled in and wrapping otherwise
add(self, rhs) ==
    IF AddOverflows(self.n, rhs.n) /\ overflow_checks
    THEN Panicked
    ELSE Returned(Some(RuntimeValue(wrapping_add(self.n, rhs.n))))

\* impl Sub for RuntimeValue: u64 `-`, likewise
sub(self, rhs) ==
    IF SubOverflows(self.n, rhs.n) /\ overflow_checks
    THEN Panicked
    ELSE Returned(Some(RuntimeValue(wrapping_sub(self.n, rhs.n))))

RECURSIVE eval(_)
eval(node) ==
    IF node = None THEN Returned(None)
    ELSE LET n == node[1] IN
         CASE n.kind = "ExpressionStatement" -> eval(n.expression)
           [] n.kind = "AdditiveExpression" ->
                LET left_value == eval(n.left) IN
                IF left_value.panic \/ left_value.value = None THEN left_value
                ELSE LET right_value == eval(n.right) IN
                     IF right_value.panic \/ right_value.value = None THEN right_value
                     ELSE IF n.operator = "+"
                          THEN add(left_value.value[1], right_value.value[1])
                          ELSE IF n.operator = "-"
                               THEN sub(left_value.value[1], right_value.value[1])
                               ELSE Returned(None)
           [] n.kind = "AssignmentExpression" -> Returned(None)
           [] n.kind = "MemberExpression" -> Returned(None)
           [] n.kind = "NumericLiteral" -> Returned(Some(RuntimeValue(n.value)))
           [] OTHER -> Panicked      \* todo!()

\* JsRuntime {}: a runtime holds no binding
JsRuntime == [name \in {} |-> RuntimeValue(U64(0))]

(***************************************************************************)
(* Inputs.                                                                 *)
(***************************************************************************)
\* tokens of every kind the parser tells apart
Alphabet ==
    { Keyword("var"), Keyword("return"),
      Punctuator(";"), Punctuator("="), Punctuator("+"), Punctuator("-"),
      Punctuator("("),
      Identifier("foo"), StringLiteral("bar"), Number(U64(1)) }

RawStreams == UNION { [1..n -> Alphabet] : n \in 0..MaxLen }

\* numeric literals at and around the ends of the u64 range
U64Samples ==
    { U64(0), U64(1), U64(2), U64(42), U64(LimbBase - 1),
      U64High, wrapping_sub(U64Max, U64(1)), U64Max }

ArithStreams ==
    { <<Number(a)>> : a \in U64Samples }
    \cup { <<Number(a), Punctuator(op), Number(b)>> :
             a \in U64Samples, op \in {"+", "-"}, b \in U64Samples }

\* operands of an expression
Operands == { Identifier("foo"), Number(U64(1)), Number(U64(2)) }

\* `a op1 b op2 c`, with op1 additive and op2 additive or '='
ChainStreams ==
    { <<a, Punctuator(op1), b, Punctuator(op2), c>> :
        a \in Operands, op1 \in {"+", "-"},
        b \in Operands, op2 \in {"+", "-", "="}, c \in Operands }

\* statements as written: `var name`, `var name = e`, and `e`, where e is
\* one token or `left op right`
Lit(tok) == [kind |-> "lit", tok |-> tok]
Bin(left, op, right) == [kind |-> "bin", left |-> left, op |-> op, right |-> right]
VarStmt(name, init) == [kind |-> "var", name |-> name, init |-> init]
ExprStmt(e) == [kind |-> "expr", expr |-> e]

VarInitForms ==
    { VarStmt("foo", Some(Lit(Number(U64(42))))),
      VarStmt("result", Some(Bin(Identifier("foo"), "+", Number(U64(1))))),
      VarStmt("foo", Some(Lit(StringLiteral("bar")))) }

StatementForms ==
    VarInitForms
    \cup { VarStmt("foo", None),
           ExprStmt(Bin(Number(U64(1)), "+", Number(U64(2)))),
           ExprStmt(Lit(Number(U64(42)))),
           ExprStmt(Bin(Identifier("foo"), "=", Number(U64(1)))) }

RenderExpr(e) ==
    IF e.kind = "lit" THEN <<e.tok>> ELSE <<e.left, Punctuator(e.op), e.right>>

RenderStmt(s) ==
    IF s.kind = "var"
    THEN <<Keyword("var"), Identifier(s.name)>>
         \o (IF s.init = None THEN <<>> ELSE <<Punctuator("=")>> \o RenderExpr(s.init[1]))
    ELSE RenderExpr(s.expr)

RECURSIVE Render(_, _)
Render(ss, sm) ==
    IF ss = <<>> THEN <<>>
    ELSE RenderStmt(Head(ss))
         \o (IF Head(sm) THEN <<Punctuator(";")>> ELSE <<>>)
         \o Render(Tail(ss), Tail(sm))

\* Programs put together with the Node constructors and Program::set_body
BuiltPrograms ==
    LET member == new_member_expression(new_identifier("foo"), new_identifier("bar"))
    IN  { <<member[1]>>,
          <<new_expression_statement(member)[1]>>,
          <<new_expression_statement(new_numeric_literal(U64(1)))[1], member[1]>> }

(***************************************************************************)
(* The state machine.                                                      *)
(***************************************************************************)
InitCommon ==
    /\ i = 1
    /\ results = <<>>
    /\ runtime = JsRuntime
    /\ overflow_checks \in BOOLEAN

\* JsParser::new over a token stream
InitRaw ==
    /\ input \in RawStreams \cup ArithStreams \cup ChainStreams
    /\ stmts = <<>>
    /\ semis = <<>>
    /\ t = input
    /\ program = <<>>
    /\ pc = "parse"
    /\ InitCommon

\* JsParser::new over the tokens of a sequence of statements
InitStatements ==
    /\ \E n \in 1..MaxStmts :
         /\ stmts \in [1..n -> StatementForms]
         /\ semis \in [1..n -> BOOLEAN]
    /\ input = Render(stmts, semis)
    /\ t = input
    /\ program = <<>>
    /\ pc = "parse"
    /\ InitCommon

\* Program::new and Program::set_body, without a parser
InitBuilt ==
    /\ input = <<>>
    /\ stmts = <<>>
    /\ semis = <<>>
    /\ t = <<>>
    /\ program \in BuiltPrograms
    /\ pc = "built"
    /\ InitCommon

Init == InitRaw \/ InitStatements \/ InitBuilt

\* JsParser::parse_ast
ParseAst ==
    /\ pc = "parse"
    /\ LET r == parse_ast(t) IN
         /\ program' = r.body
         /\ t' = r.t
         /\ pc' = IF r.ok THEN "parsed" ELSE "panicked"
    /\ UNCHANGED <<input, stmts, semis, i, results, runtime, overflow_checks>>

\* JsRuntime::new, and execute entering its loop
ExecuteBegin ==
    /\ pc \in {"parsed", "built"}
    /\ runtime' = JsRuntime
    /\ i' = 1
    /\ pc' = "execute"
    /\ UNCHANGED <<input, stmts, semis, t, program, results, overflow_checks>>

\* one iteration of execute's loop: eval of the next statement
ExecuteStatement ==
    /\ pc = "execute"
    /\ i <= Len(program)
    /\ LET r == eval(Some(program[i])) IN
         IF r.panic
         THEN /\ pc' = "panicked"
              /\ UNCHANGED <<i, results>>
         ELSE /\ results' = Append(results, r.value)
              /\ i' = i + 1
              /\ pc' = pc
    /\ UNCHANGED <<input, stmts, semis, t, program, runtime, overflow_checks>>

\* execute's loop ends
ExecuteReturn ==
    /\ pc = "execute"
    /\ i > Len(program)
    /\ pc' = "done"
    /\ UNCHANGED <<input, stmts, semis, t, program, i, results, runtime, overflow_checks>>

Next == ParseAst \/ ExecuteBegin \/ ExecuteStatement \/ ExecuteReturn

Spec == Init /\ [][Next]_vars

TypeOK ==
    /\ pc \in {"parse", "parsed", "built", "execute", "done", "panicked"}
    /\ i \in 1..(Len(program) + 1)
    /\ Len(results) < i
    /\ runtime = JsRuntime

(***************************************************************************)
(* Shapes of inputs and programs the properties speak about.               *)
(***************************************************************************)
FooProgram ==          \* var foo=42; var result=foo+1;
    Render(<<VarStmt("foo", Some(Lit(Number(U64(42))))),
             VarStmt("result", Some(Bin(Identifier("foo"), "+", Number(U64(1)))))>>,
           <<TRUE, TRUE>>)

\* the input is one numeric literal
IsLiteral == Len(input) = 1 /\ input[1].kind = "Number"

\* the input is `a op b` over numeric literals
IsBinary(op) ==
    /\ Len(input) = 3
    /\ input[1].kind = "Number"
    /\ input[2] = Punctuator(op)
    /\ input[3].kind = "Number"

\* execute has been entered
Executing == pc \in {"execute", "done", "panicked"}

\* a + b as a natural number, of Len(a) + 1 limbs
RECURSIVE NatSum(_, _, _)
NatSum(a, b, c) ==
    IF a = <<>> THEN <<c>>
    ELSE <<(Head(a) + Head(b) + c) % LimbBase>>
         \o NatSum(Tail(a), Tail(b), (Head(a) + Head(b) + c) \div LimbBase)

\* r = a + b, all three in the u64 range
IsSum(r, a, b) == NatSum(a, b, 0) = r \o <<0>>

\* a + b <= 2^64 - 1
SumInRange(a, b) == NatSum(a, b, 0)[NumLimbs + 1] = 0

\* a >= b
RECURSIVE NatGeq(_, _)
NatGeq(a, b) ==
    IF a = <<>> THEN TRUE
    ELSE LET k == Len(a) IN
         IF a[k] # b[k] THEN a[k] > b[k]
         ELSE NatGeq(SubSeq(a, 1, k - 1), SubSeq(b, 1, k - 1))

\* an operand the grammar requires is absent somewhere in node n
RECURSIVE HasAbsentOperand(_)
HasAbsentOperand(n) ==
    CASE n.kind = "ExpressionStatement" ->
           n.expression = None \/ HasAbsentOperand(n.expression[1])
      [] n.kind \in {"AdditiveExpression", "AssignmentExpression"} ->
           \/ n.left = None
           \/ n.right = None
           \/ HasAbsentOperand(n.left[1])
           \/ HasAbsentOperand(n.right[1])
      [] n.kind = "VariableDeclaration" ->
           \E k \in 1..Len(n.declarations) :
               n.declarations[k] = None \/ HasAbsentOperand(n.declarations[k][1])
      [] n.kind = "VariableDeclarator" ->
           n.id = None \/ (n.init # None /\ HasAbsentOperand(n.init[1]))
      [] OTHER -> FALSE

(***************************************************************************)
(* C1.  Executing `var foo=42; var result=foo+1;` binds foo to Number(42)  *)
(* and then result to Number(43): execution does not abort, foo is bound   *)
(* once the first statement has been evaluated, and both are bound when    *)
(* execution is done.                                                      *)
(***************************************************************************)
Bound(name, value) == name \in DOMAIN runtime /\ runtime[name] = RuntimeValue(value)

C1_FooThenResult ==
    input = FooProgram =>
        /\ pc # "panicked"
        /\ (Executing /\ i > 1 => Bound("foo", U64(42)))
        /\ (pc = "done" => Bound("foo", U64(42)) /\ Bound("result", U64(43)))

(***************************************************************************)
(* C2.  Evaluating an assignment to a non-identifier, an identifier, or a  *)
(* MemberExpression ends in an error outcome: eval neither returns "no     *)
(* value" nor aborts.                                                      *)
(***************************************************************************)
\* the expression a statement node evaluates
Evaluated(n) == IF n.kind = "ExpressionStatement" THEN n.expression ELSE Some(n)

IsErrorCase(n) ==
    LET e == Evaluated(n) IN
    /\ e # None
    /\ \/ /\ e[1].kind = "AssignmentExpression"
          /\ e[1].left # None
          /\ e[1].left[1].kind # "Identifier"
       \/ e[1].kind = "Identifier"
       \/ e[1].kind = "MemberExpression"

C2_TypedErrors ==
    Executing =>
        \A k \in 1..Len(program) :
            IsErrorCase(program[k]) =>
                /\ ~(pc = "panicked" /\ k = i)
                /\ (k < i => results[k] # None)

(***************************************************************************)
(* C3.  For numeric literals a and b of the u64 range, evaluating `a + b`  *)
(* and `a - b` never aborts, a + b > 2^64 - 1 and a < b included.          *)
(***************************************************************************)
C3_NoCrash == (IsBinary("+") \/ IsBinary("-")) => pc # "panicked"

(***************************************************************************)
(* C4.  When the token stream ends right after '+', '-', '=' or `var`,     *)
(* parse_ast does not return a Program with a node whose operand is        *)
(* absent.                                                                 *)
(***************************************************************************)
EndsMidway ==
    /\ input # <<>>
    /\ input[Len(input)] \in
           {Punctuator("+"), Punctuator("-"), Punctuator("="), Keyword("var")}

C4_TruncatedIsError ==
    pc = "parsed" /\ EndsMidway =>
        \A k \in 1..Len(program) : ~HasAbsentOperand(program[k])

(***************************************************************************)
(* C5.  Evaluating the statement parsed from `n` returns Number(n); from   *)
(* `a + b` with a + b <= 2^64 - 1, Number(a + b); from `a - b` with        *)
(* a >= b, Number(a - b).                                                  *)
(***************************************************************************)
C5_InRangeArithmetic ==
    LET a == input[1].value
        b == input[3].value
    IN
    /\ Executing /\ IsLiteral =>
           /\ pc # "panicked"
           /\ (i > 1 => results = <<Some(RuntimeValue(a))>>)
    /\ Executing /\ IsBinary("+") /\ SumInRange(a, b) =>
           /\ pc # "panicked"
           /\ (i > 1 =>
                 /\ Len(results) = 1
                 /\ results[1] # None
                 /\ IsSum(results[1][1].n, a, b))
    /\ Executing /\ IsBinary("-") /\ NatGeq(a, b) =>
           /\ pc # "panicked"
           /\ (i > 1 =>
                 /\ Len(results) = 1
                 /\ results[1] # None
                 /\ IsSum(a, results[1][1].n, b))

\* 65535 + 1 = 65536 has been evaluated, with overflow checks compiled in
C5_Witness ==
    /\ pc = "done"
    /\ overflow_checks
    /\ input = <<Number(U64(LimbBase - 1)), Punctuator("+"), Number(U64(1))>>
    /\ results = <<Some(RuntimeValue(<<0, 1, 0, 0>>))>>

(***************************************************************************)
(* C6.  One Number(n) parses to exactly ExpressionStatement(               *)
(* NumericLiteral(n)); Number(a), op, Number(b) with op '+' or '-' parses  *)
(* to exactly ExpressionStatement(AdditiveExpression{op, a, b}).           *)
(***************************************************************************)
C6_LiteralAndBinary ==
    pc = "parsed" =>
        /\ IsLiteral =>
             program = <<[kind |-> "ExpressionStatement",
                          expression |-> <<[kind |-> "NumericLiteral",
                                            value |-> input[1].value]>>]>>
        /\ \A op \in {"+", "-"} :
             IsBinary(op) =>
               program = <<[kind |-> "ExpressionStatement",
                            expression |->
                              <<[kind |-> "AdditiveExpression",
                                 operator |-> op,
                                 left |-> <<[kind |-> "NumericLiteral",
                                             value |-> input[1].value]>>,
                                 right |-> <<[kind |-> "NumericLiteral",
                                              value |-> input[3].value]>>]>>]>>

\* `1 - 2` has been parsed
C6_Witness ==
    /\ pc = "parsed"
    /\ input = <<Number(U64(1)), Punctuator("-"), Number(U64(2))>>
    /\ Len(program) = 1

(***************************************************************************)
(* C7.  k >= 1 statements `var name = expression`, each with or without a  *)
(* ';' after it, parse to exactly k VariableDeclarations in source order,  *)
(* each of one VariableDeclarator with id Identifier(name) and init the    *)
(* expression.                                                             *)
(***************************************************************************)
ExpectedToken(tok) ==
    CASE tok.kind = "Identifier" -> [kind |-> "Identifier", name |-> tok.text]
      [] tok.kind = "StringLiteral" -> [kind |-> "StringLiteral", value |-> tok.text]
      [] tok.kind = "Number" -> [kind |-> "NumericLiteral", value |-> tok.value]

ExpectedExpr(e) ==
    IF e.kind = "lit" THEN ExpectedToken(e.tok)
    ELSE [kind |-> "AdditiveExpression",
          operator |-> e.op,
          left |-> <<ExpectedToken(e.left)>>,
          right |-> <<ExpectedToken(e.right)>>]

ExpectedDeclaration(s) ==
    [kind |-> "VariableDeclaration",
     declarations |->
       << <<[kind |-> "VariableDeclarator",
             id |-> <<[kind |-> "Identifier", name |-> s.name]>>,
             init |-> <<ExpectedExpr(s.init[1])>>]>> >>]

C7_VarDeclarations ==
    /\ pc = "parsed"
    /\ stmts # <<>>
    /\ \A k \in 1..Len(stmts) : stmts[k] \in VarInitForms
    => program = [k \in 1..Len(stmts) |-> ExpectedDeclaration(stmts[k])]

\* var foo=42 var result=foo+1, with no ';', has been parsed
C7_Witness ==
    /\ pc = "parsed"
    /\ input = Render(stmts, semis)
    /\ Len(stmts) = 2
    /\ stmts[1] = VarStmt("foo", Some(Lit(Number(U64(42)))))
    /\ stmts[2] = VarStmt("result", Some(Bin(Identifier("foo"), "+", Number(U64(1)))))
    /\ semis = <<FALSE, FALSE>>
    /\ Len(program) = 2

(***************************************************************************)
(* C8.  Parsing an empty token stream returns a Program with an empty      *)
(* statement sequence.                                                     *)
(***************************************************************************)
C8_EmptyProgram == pc = "parsed" /\ input = <<>> => program = <<>>

\* the empty token stream has been parsed
C8_Witness == pc = "parsed" /\ input = <<>> /\ t = <<>>

(***************************************************************************)
(* C9.  In every Program parse_ast returns, the only absent child is the   *)
(* init of a VariableDeclarator.                                           *)
(***************************************************************************)
C9_WellFormed ==
    pc = "parsed" => \A k \in 1..Len(program) : ~HasAbsentOperand(program[k])

(***************************************************************************)
(* C10.  A sequence of grammatical statements parses to the same Program   *)
(* whichever of the ';' after its statements are left out.                 *)
(***************************************************************************)
C10_SemicolonsOptional ==
    pc = "parsed" /\ stmts # <<>> =>
        program = parse_ast(Render(stmts, [k \in 1..Len(stmts) |-> TRUE])).body

(***************************************************************************)
(* C11.  `a op1 b op2 c` with op1 and op2 among '+' and '-' parses to      *)
(* AdditiveExpression{op1, a, AdditiveExpression{op2, b, c}}, never to the *)
(* left-nested tree, and `a + b = c` parses to                             *)
(* AdditiveExpression{'+', a, AssignmentExpression{'=', b, c}}.            *)
(***************************************************************************)
\* the input is `a op1 b op2 c` over operands
IsChain(op1, op2) ==
    /\ Len(input) = 5
    /\ \A k \in {1, 3, 5} : input[k].kind \in {"Identifier", "StringLiteral", "Number"}
    /\ input[2] = Punctuator(op1)
    /\ input[4] = Punctuator(op2)

Binary(kind, op, left, right) ==
    [kind |-> kind, operator |-> op, left |-> <<left>>, right |-> <<right>>]

RightNested(kind, op1, op2) ==
    <<[kind |-> "ExpressionStatement",
       expression |->
         <<Binary("AdditiveExpression", op1, ExpectedToken(input[1]),
                  Binary(kind, op2, ExpectedToken(input[3]),
                         ExpectedToken(input[5])))>>]>>

LeftNested(op1, op2) ==
    <<[kind |-> "ExpressionStatement",
       expression |->
         <<Binary("AdditiveExpression", op2,
                  Binary("AdditiveExpression", op1, ExpectedToken(input[1]),
                         ExpectedToken(input[3])),
                  ExpectedToken(input[5]))>>]>>

C11_RightAssociative ==
    pc = "parsed" =>
        /\ \A op1, op2 \in {"+", "-"} :
             IsChain(op1, op2) =>
                 /\ program = RightNested("AdditiveExpression", op1, op2)
                 /\ program # LeftNested(op1, op2)
        /\ IsChain("+", "=") => program = RightNested("AssignmentExpression", "+", "=")

\* `foo - 1 + 2` has been parsed
C11_Witness ==
    /\ pc = "parsed"
    /\ input = <<Identifier("foo"), Punctuator("-"), Number(U64(1)),
                 Punctuator("+"), Number(U64(2))>>
    /\ Len(program) = 1
    /\ t = <<>>

(***************************************************************************)
(* C12.  parse_ast terminates on every finite token stream: a call of      *)
(* source_element that returns a node has consumed at least one token,     *)
(* wherever in the stream it starts, so the returned Program has at most   *)
(* as many statements as the input has tokens.                             *)
(***************************************************************************)
\* the input from its k-th token on
Suffix(k) == SubSeq(input, k, Len(input))

\* r, returned by a production entered with ts, holds no node or fewer tokens
Progress(ts, r) == r.node # None => Len(r.t) < Len(ts)

C12_Terminates ==
    /\ \A k \in 1..(Len(input) + 1) : Progress(Suffix(k), source_element(Suffix(k)))
    /\ pc = "parsed" => Len(program) <= Len(input)

\* four tokens have been parsed to four statements
C12_Witness ==
    /\ pc = "parsed"
    /\ Len(input) = 4
    /\ Len(program) = 4
    /\ t = <<>>

(***************************************************************************)
(* C13.  No assert! of the parser fails on any token stream: parse_ast     *)
(* always returns, it never aborts.                                        *)
(***************************************************************************)
C13_AssertionsHold == [][pc = "parse" => pc' = "parsed"]_vars

\* a stream with `var`, '=', '+' and ';' has been parsed: every assert! passed
C13_Witness ==
    /\ pc = "parsed"
    /\ input = FooProgram
    /\ t = <<>>
    /\ Len(program) = 2

(***************************************************************************)
(* C14.  When parse_ast has returned, either every token has been          *)
(* consumed, or the tokens left start with a Keyword other than `var` met  *)
(* at a statement boundary: they are that keyword and all the input after  *)
(* it, and the Program is the one the tokens before it parse to.           *)
(***************************************************************************)
\* the tokens consumed
Consumed == SubSeq(input, 1, Len(input) - Len(t))

StoppedAtKeyword ==
    /\ t # <<>>
    /\ Head(t).kind = "Keyword"
    /\ Head(t).text # "var"
    /\ Len(t) <= Len(input)
    /\ input = Consumed \o t
    /\ program = parse_ast(Consumed).body
    /\ parse_ast(Consumed).t = <<>>

C14_ReturnsAtEndOrKeyword ==
    pc = "parsed" => (t = <<>> \/ StoppedAtKeyword)

\* `1 return 1` has been parsed: one statement, `return 1` left
C14_Witness ==
    /\ pc = "parsed"
    /\ input = <<Number(U64(1)), Keyword("return"), Number(U64(1))>>
    /\ t = <<Keyword("return"), Number(U64(1))>>
    /\ Len(program) = 1

====
